---- MODULE Spec2Model ----
(***************************************************************************)
(* Model of the Car-Speed-Simulation numerical core:                       *)
(*   - EKF            (backend/cpp/ekf.cpp)                                *)
(*   - PhysicsEngine  (backend/cpp/physics_engine.cpp)                     *)
(*   - the per-waypoint loop of backend/cpp/physics_main.cpp               *)
(*                                                                         *)
(* A C++ double is modelled as a fixed-point number with three decimals:   *)
(* the integer n stands for the real n / SCALE.  Every product and         *)
(* quotient is rounded to the nearest representable value, as a floating   *)
(* point unit rounds every operation.                                      *)
(***************************************************************************)
EXTENDS Integers, Sequences, FiniteSets, TLC

SCALE == 10 * 10 * 10

\* ------------------------------------------------------------------------
\* Fixed-point arithmetic (the double operators + - * / of the source)
\* ------------------------------------------------------------------------
\* Operands are passed by value, as in C++: an operator that uses an operand
\* more than once binds it first (x \in {operand}) and computes with the
\* bound value; Val takes the result out of the singleton.
Val(S) == CHOOSE r \in S : TRUE

Abs(a) == Val({ IF x < 0 THEN -x ELSE x : x \in {a} })

Sgn(a) == IF a < 0 THEN -1 ELSE 1

\* std::max / std::min
Max(a, b) == Val({ IF x < y THEN y ELSE x : x \in {a}, y \in {b} })

Min(a, b) == Val({ IF y < x THEN y ELSE x : x \in {a}, y \in {b} })

\* |a| * |b|, rounded to nearest; split so that no intermediate exceeds 32 bits
MulAbs(a, b) ==
    (a \div SCALE) * (b \div SCALE) * SCALE + (a \div SCALE) * (b % SCALE)
    + (a % SCALE) * (b \div SCALE)
    + (((a % SCALE) * (b % SCALE) + SCALE \div 2) \div SCALE)

Mul(a, b) ==
    Val({ Sgn(x) * Sgn(y) * MulAbs(Sgn(x) * x, Sgn(y) * y) : x \in {a}, y \in {b} })

\* the three decimals of r / b for 0 <= r < b, by long division, rounded
Decimals(r, b) ==
    Val({ Val({ Val({ d1 * 100 + d2 * 10 + d3 + (IF 2 * ((r2 * 10) % b) >= b THEN 1 ELSE 0) :
                      d3 \in {(r2 * 10) \div b} }) :
                d2 \in {(r1 * 10) \div b}, r2 \in {(r1 * 10) % b} }) :
          d1 \in {(r * 10) \div b}, r1 \in {(r * 10) % b} })

\* |a| / |b| for b # 0, rounded to nearest
DivAbs(a, b) == (a \div b) * SCALE + Decimals(a % b, b)

Div(a, b) ==
    Val({ Sgn(x) * Sgn(y) * DivAbs(Sgn(x) * x, Sgn(y) * y) : x \in {a}, y \in {b} })

\* the integer literal n of the source as a double
Num(n) == n * SCALE

M_PI == 3142

\* while (a > M_PI) a -= 2.0 * M_PI; while (a < -M_PI) a += 2.0 * M_PI;
RECURSIVE WrapLoop(_)
WrapLoop(a) ==
    Val({ IF x > M_PI THEN WrapLoop(x - Mul(Num(2), M_PI))
          ELSE IF x < -M_PI THEN WrapLoop(x + Mul(Num(2), M_PI))
          ELSE x : x \in {a} })

\* the Taylor polynomial of sin on [-pi/2, pi/2]
SinPoly(a) ==
    Val({ Val({ x - Div(x3, Num(6)) + Div(Mul(x3, x2), Num(120))
                  - Div(Mul(Mul(x3, x2), x2), Num(5040)) :
                x3 \in {Mul(x2, x)} }) :
          x \in {a}, x2 \in {Mul(a, a)} })

\* std::sin: argument reduction to [-pi/2, pi/2], then the polynomial
Sin(a) ==
    Val({ Max(-SCALE, Min(SCALE,
              IF r > M_PI \div 2 THEN SinPoly(M_PI - r)
              ELSE IF r < -(M_PI \div 2) THEN SinPoly(-M_PI - r)
              ELSE SinPoly(r))) : r \in {WrapLoop(a)} })

\* std::cos
Cos(a) == Sin(a + M_PI \div 2)

\* ------------------------------------------------------------------------
\* PhysicsEngine (physics_engine.hpp / physics_engine.cpp)
\* ------------------------------------------------------------------------

\* VehicleParams with its default member initialisers
VehicleParams ==
    [ mass_kg |-> 1400000, frontal_area_m2 |-> 2100, drag_coefficient |-> 280,
      rolling_resistance |-> 12, max_engine_power_kw |-> 125000,
      max_torque_nm |-> 220000, idle_rpm |-> 800000, max_rpm |-> 6500000,
      optimal_rpm |-> 4000000, max_brake_force_n |-> 9000000,
      brake_disc_radius_m |-> 150, gravity_ms2 |-> 9810, air_density |-> 1225,
      gear_ratios |-> <<3540, 2060, 1360, 1030, 840, 700>>,
      final_drive_ratio |-> 4350, wheel_radius_m |-> 320 ]

\* the parameter record physics_main.cpp builds before constructing the engine
MainParams ==
    [ VehicleParams EXCEPT !.mass_kg = 1500000, !.frontal_area_m2 = 2500,
                           !.drag_coefficient = 350, !.rolling_resistance = 15,
                           !.max_engine_power_kw = 150000,
                           !.max_brake_force_n = 8000000 ]

calculateDragForce(p, speed_ms) ==
    Mul(Mul(Mul(Mul(Mul(500, p.air_density), p.drag_coefficient),
                p.frontal_area_m2), speed_ms), speed_ms)

calculateRollingResistance(p, speed_ms) ==
    Mul(Mul(Mul(p.rolling_resistance, p.mass_kg), p.gravity_ms2),
        Num(1) + Div(speed_ms, Num(100)))

calculateGradeResistance(p, grade_rad) ==
    Mul(Mul(p.mass_kg, p.gravity_ms2), Sin(grade_rad))

\* if (gear < 1 || gear > 6) gear = 1;
GearDefaultHigh(gear) == IF gear < 1 THEN 1 ELSE IF gear > 6 THEN 6 ELSE gear

GearDefault(gear) == IF gear < 1 \/ gear > 6 THEN 1 ELSE gear

calculateEngineRPM(p, speed_ms, gear) ==
    Mul(Mul(Div(Mul(Div(speed_ms, p.wheel_radius_m), Num(60)), Mul(Num(2), M_PI)),
            p.gear_ratios[GearDefault(gear)]),
        p.final_drive_ratio)

\* the test of the loop body without its condition on the target speed
GearFitsNoTarget(p, speed_ms, target_speed_ms, gear) ==
    \E rpm \in {calculateEngineRPM(p, speed_ms, gear)} :
        /\ rpm >= p.idle_rpm
        /\ rpm <= Mul(p.max_rpm, 850)

\* the test of the loop body: this gear is in range for both speeds
GearFits(p, speed_ms, target_speed_ms, gear) ==
    \E rpm \in {calculateEngineRPM(p, speed_ms, gear)} :
        /\ rpm >= p.idle_rpm
        /\ rpm <= Mul(p.max_rpm, 850)
        /\ calculateEngineRPM(p, target_speed_ms, gear) <= Mul(p.max_rpm, 900)

\* for (int gear = 1; gear <= 6; gear++) ... return gear;  return 1;
RECURSIVE GearSearch(_, _, _, _)
GearSearch(p, speed_ms, target_speed_ms, gear) ==
    IF gear > 6 THEN 1
    ELSE IF GearFits(p, speed_ms, target_speed_ms, gear) THEN gear
    ELSE GearSearch(p, speed_ms, target_speed_ms, gear + 1)

selectOptimalGear(p, speed_ms, target_speed_ms) ==
    Val({ GearSearch(p, s, t, 1) : s \in {speed_ms}, t \in {target_speed_ms} })

\* the piecewise torque curve before it is clamped
TorqueRatio(p, rpm) ==
    IF rpm < p.idle_rpm THEN 300
    ELSE IF rpm < p.optimal_rpm THEN
        600 + Mul(400, Div(rpm - p.idle_rpm, p.optimal_rpm - p.idle_rpm))
    ELSE IF rpm < Mul(p.max_rpm, 800) THEN Num(1)
    ELSE Num(1) - Mul(300, Div(rpm - Mul(p.max_rpm, 800), Mul(p.max_rpm, 200)))

calculateEngineTorque(p, rpm, throttle_percent) ==
    Val({ Mul(Mul(p.max_torque_nm, Max(200, Min(Num(1), TorqueRatio(p, r)))),
              Div(throttle_percent, Num(100))) : r \in {rpm} })

shouldUpshift(p, rpm, speed_ms) ==
    rpm > Mul(p.optimal_rpm, 1300) /\ speed_ms > Num(5)

shouldDownshift(p, rpm, speed_ms) ==
    rpm < Mul(p.idle_rpm, 1500) /\ speed_ms > Num(2)

calculateEngineForce(p, speed_ms, throttle_percent, gear) ==
    Val({ Div(Mul(calculateEngineTorque(p, calculateEngineRPM(p, speed_ms, g),
                                        throttle_percent),
                  Mul(p.gear_ratios[g], p.final_drive_ratio)),
              p.wheel_radius_m) : g \in {gear} })

calculateBrakeForce(p, brake_percent) ==
    Mul(p.max_brake_force_n, Div(brake_percent, Num(100)))

\* if (x < 0) x = 0.0;   (input validation of calculateAcceleration)
NonNegative(speed_ms) == IF speed_ms < 0 THEN 0 ELSE speed_ms

\* need_accel ? "accel" : need_brake ? "brake" : "cruise"
SpeedModeWide(speed_error) ==
    IF speed_error > 0 THEN "accel"
    ELSE IF speed_error < 0 THEN "brake"
    ELSE "cruise"

SpeedMode(speed_error) ==
    IF speed_error > 100 THEN "accel"
    ELSE IF speed_error < -100 THEN "brake"
    ELSE "cruise"

\* total_resistance = drag_force + rolling_force + grade_force
TotalResistance(p, current_speed_ms, grade_rad) ==
    calculateDragForce(p, current_speed_ms)
    + calculateRollingResistance(p, current_speed_ms)
    + calculateGradeResistance(p, grade_rad)

\* desired_accel = std::max(-6.0, std::min(4.0, Kp * speed_error)), Kp = 0.25
DesiredAccel(speed_error) == Max(-Num(6), Min(Num(4), Mul(250, speed_error)))

\* acceleration = std::max(-6.0, std::min(4.0, acceleration));
FinalClampLoose(acceleration) == Max(-Num(8), Min(Num(4), acceleration))

FinalClamp(acceleration) == Max(-Num(6), Min(Num(4), acceleration))

\* brake_percent = std::max(0.0, std::min(100.0, -desired_accel * 8.0));
BrakePercent(desired_accel) == Max(0, Min(Num(100), Mul(-desired_accel, Num(8))))

\* net force of the brake branch, with its ABS limit of 8 m/s^2
BrakeNetForceNoAbs(p, desired_accel, total_resistance) ==
    -(calculateBrakeForce(p, BrakePercent(desired_accel)) + total_resistance)

BrakeNetForce(p, desired_accel, total_resistance) ==
    Max(-(calculateBrakeForce(p, BrakePercent(desired_accel)) + total_resistance),
        Mul(-p.mass_kg, Num(8)))

\* throttle_percent = std::max(0.0, std::min(100.0, desired_accel * 20.0 + 8.0));
ThrottleForNoBase(desired_accel) ==
    Max(0, Min(Num(100), Mul(desired_accel, Num(20))))

ThrottleFor(desired_accel) ==
    Max(0, Min(Num(100), Mul(desired_accel, Num(20)) + Num(8)))

\* if (current_speed_ms < 3.0) throttle_percent = std::min(throttle_percent, 35.0);
ThrottlePercent(current_speed_ms, desired_accel) ==
    IF current_speed_ms < Num(3) THEN Min(ThrottleFor(desired_accel), Num(35))
    ELSE ThrottleFor(desired_accel)

\* max_available_accel = engine_force / mass; if (... > 4.0) ... = 4.0;
MaxAvailableAccel(p, engine_force) ==
    Val({ IF m > Num(4) THEN Num(4) ELSE m : m \in {Div(engine_force, p.mass_kg)} })

\* net force of the accelerate branch, with its traction limit
AccelNetForce(p, current_speed_ms, target_speed_ms, desired_accel, total_resistance) ==
    Val({ Min(engine_force - total_resistance,
              Mul(p.mass_kg, MaxAvailableAccel(p, engine_force))) :
          engine_force \in
            { calculateEngineForce(p, current_speed_ms,
                  ThrottlePercent(current_speed_ms, desired_accel),
                  selectOptimalGear(p, current_speed_ms, target_speed_ms)) } })

\* net_force of the branch the speed error selects
NetForce(p, current_speed_ms, target_speed_ms, speed_error, total_resistance) ==
    IF SpeedMode(speed_error) = "accel" THEN
        AccelNetForce(p, current_speed_ms, target_speed_ms,
                      DesiredAccel(speed_error), total_resistance)
    ELSE IF SpeedMode(speed_error) = "brake" THEN
        BrakeNetForce(p, DesiredAccel(speed_error), total_resistance)
    ELSE 0

\* the whole of calculateAcceleration, keeping the branch taken and the
\* value the final clamp is applied to
AccelerationTrace(p, current_in, target_in, grade_rad) ==
    Val({ Val({ Val({ [ mode |-> SpeedMode(t - c), speed_error |-> t - c,
                        total_resistance |-> res, net_force |-> net_force,
                        pre_clamp |-> acceleration,
                        acceleration |-> FinalClamp(acceleration) ] :
                      acceleration \in {Div(net_force, p.mass_kg)} }) :
                net_force \in {NetForce(p, c, t, t - c, res)} }) :
          c \in {NonNegative(current_in)}, t \in {NonNegative(target_in)},
          res \in {TotalResistance(p, NonNegative(current_in), grade_rad)} })

calculateAcceleration(p, current_speed_ms, target_speed_ms, grade_rad, distance_to_target_m) ==
    AccelerationTrace(p, current_speed_ms, target_speed_ms, grade_rad).acceleration

\* next_state.speed_ms = std::max(0.0, next_state.speed_ms);
SpeedFloorNone(speed_ms) == speed_ms

SpeedFloor(speed_ms) == Max(0, speed_ms)

\* a step that also re-selects the gear and the engine speed for the new speed
simulateStepWithGear(p, dt, current, target_speed_ms, distance_to_target_m) ==
    Val({ [ current EXCEPT
              !.acceleration_ms2 = a,
              !.speed_ms = SpeedFloor(current.speed_ms + Mul(a, dt)),
              !.position_m = current.position_m + Mul(current.speed_ms, dt)
                             + Mul(Mul(Mul(500, a), dt), dt),
              !.current_gear = selectOptimalGear(p, current.speed_ms, target_speed_ms),
              !.engine_rpm = calculateEngineRPM(p, current.speed_ms, current.current_gear) ] :
          a \in { calculateAcceleration(p, current.speed_ms, target_speed_ms,
                                        current.grade_rad, distance_to_target_m) } })

simulateStep(p, dt, current, target_speed_ms, distance_to_target_m) ==
    Val({ [ current EXCEPT
              !.acceleration_ms2 = a,
              !.speed_ms = SpeedFloor(current.speed_ms + Mul(a, dt)),
              !.position_m = current.position_m + Mul(current.speed_ms, dt)
                             + Mul(Mul(Mul(500, a), dt), dt) ] :
          a \in { calculateAcceleration(p, current.speed_ms, target_speed_ms,
                                        current.grade_rad, distance_to_target_m) } })

\* ------------------------------------------------------------------------
\* EKF (ekf.hpp / ekf.cpp): matrices are tuples of rows
\* ------------------------------------------------------------------------
state_dim_ == 5

meas_dim_ == 2

\* the tuple <<f[1], ..., f[n]>>, every entry computed once
RECURSIVE Vec(_, _)
Vec(f, n) == IF n = 0 THEN <<>> ELSE Append(Vec(f, n - 1), f[n])

Mat(f, n, m) == Vec([i \in 1..n |-> Vec(f[i], m)], n)

Identity(n) == Mat([i \in 1..n |-> [j \in 1..n |-> IF i = j THEN Num(1) ELSE 0]], n, n)

Zero(n, m) == Mat([i \in 1..n |-> [j \in 1..m |-> 0]], n, m)

Transpose(A) ==
    Mat([j \in 1..Len(A[1]) |-> [i \in 1..Len(A) |-> A[i][j]]], Len(A[1]), Len(A))

RECURSIVE SumTo(_, _)
SumTo(f, n) == IF n = 0 THEN 0 ELSE SumTo(f, n - 1) + f[n]

MatMul(A, B) ==
    Mat([i \in 1..Len(A) |-> [j \in 1..Len(B[1]) |->
            SumTo([k \in 1..Len(B) |-> Mul(A[i][k], B[k][j])], Len(B))]],
        Len(A), Len(B[1]))

MatAdd(A, B) ==
    Mat([i \in 1..Len(A) |-> [j \in 1..Len(A[1]) |-> A[i][j] + B[i][j]]],
        Len(A), Len(A[1]))

MatSub(A, B) ==
    Mat([i \in 1..Len(A) |-> [j \in 1..Len(A[1]) |-> A[i][j] - B[i][j]]],
        Len(A), Len(A[1]))

MatScale(A, c) ==
    Mat([i \in 1..Len(A) |-> [j \in 1..Len(A[1]) |-> Mul(A[i][j], c)]],
        Len(A), Len(A[1]))

MatVec(A, v) ==
    Vec([i \in 1..Len(A) |-> SumTo([k \in 1..Len(v) |-> Mul(A[i][k], v[k])], Len(v))],
        Len(A))

VecAdd(u, v) == Vec([i \in 1..Len(u) |-> u[i] + v[i]], Len(u))

VecSub(u, v) == Vec([i \in 1..Len(u) |-> u[i] - v[i]], Len(u))

\* F_ = Identity; F_(0,2) = dt_; F_(1,3) = dt_;
Transition(dt) == [Identity(state_dim_) EXCEPT ![1][3] = dt, ![2][4] = dt]

\* a measurement matrix whose second row reads the yaw instead of y
H_MeasuresYaw == [Zero(meas_dim_, state_dim_) EXCEPT ![1][1] = Num(1), ![2][5] = Num(1)]

\* H_: measure positions only, z = [x, y]
H_ == [Zero(meas_dim_, state_dim_) EXCEPT ![1][1] = Num(1), ![2][2] = Num(1)]

\* Q_: process noise
Q_ == [Zero(state_dim_, state_dim_) EXCEPT ![1][1] = 1, ![2][2] = 1,
                                            ![3][3] = 50, ![4][4] = 50, ![5][5] = 10]

\* a filter without measurement noise
R_None == Zero(meas_dim_, meas_dim_)

\* R_: measurement noise
R_ == [Zero(meas_dim_, meas_dim_) EXCEPT ![1][1] = Num(3), ![2][2] = Num(3)]

\* P_.setIdentity(); P_ *= 10.0;
InitialCovarianceUnit == MatScale(Identity(state_dim_), Num(1))

InitialCovariance == MatScale(Identity(state_dim_), Num(10))

\* x0.size() != state_dim_   /   z.size() != meas_dim_
WrongSizeOnlyLonger(v, dim) == Len(v) > dim

WrongSize(v, dim) == Len(v) # dim

\* the normalisation loops of predict
wrapYaw(yaw_new) == WrapLoop(yaw_new)

\* the state vector predict stores
PredictState(x, dt, ax_body, yaw_rate) ==
    LET yaw     == x[5]
        yaw_new == wrapYaw(yaw + Mul(yaw_rate, dt))
        ax_w    == Mul(ax_body, Cos(yaw))
        ay_w    == Mul(ax_body, Sin(yaw))
        vx_new  == x[3] + Mul(ax_w, dt)
        vy_new  == x[4] + Mul(ay_w, dt)
        x_new   == x[1] + Mul(x[3], dt) + Mul(Mul(Mul(500, ax_w), dt), dt)
        y_new   == x[2] + Mul(x[4], dt) + Mul(Mul(Mul(500, ay_w), dt), dt)
    IN  <<x_new, y_new, vx_new, vy_new, yaw_new>>

\* P_ = F_ * P_ * F_.transpose() + Q_;
PredictCovariance(P, F) == MatAdd(MatMul(MatMul(F, P), Transpose(F)), Q_)

\* S = H_ * P_ * H_.transpose() + R_;
InnovationCovariance(P) == MatAdd(MatMul(MatMul(H_, P), Transpose(H_)), R_)

Det2(S) == Mul(S[1][1], S[2][2]) - Mul(S[1][2], S[2][1])

Adj2(S) == << <<S[2][2], -S[1][2]>>, <<-S[2][1], S[1][1]>> >>

\* K = P_ * H_.transpose() * S.inverse(), the inverse kept as adj(S) / det(S)
KalmanGain(P) ==
    LET S   == InnovationCovariance(P)
        num == MatMul(MatMul(P, Transpose(H_)), Adj2(S))
        det == Det2(S)
    IN  Mat([i \in 1..state_dim_ |-> [j \in 1..meas_dim_ |-> Div(num[i][j], det)]],
            state_dim_, meas_dim_)

\* x_ = x_ + K * y;
UpdateState(x, P, z) == VecAdd(x, MatVec(KalmanGain(P), VecSub(z, MatVec(H_, x))))

\* P_ = (I - K * H_) * P_;
UpdateCovariance(P) ==
    MatMul(MatSub(Identity(state_dim_), MatMul(KalmanGain(P), H_)), P)

\* ------------------------------------------------------------------------
\* State
\* ------------------------------------------------------------------------
VARIABLES
    x_,          \* EKF::x_
    P_,          \* EKF::P_
    F_,          \* EKF::F_
    dt_,         \* EKF::dt_
    ekf_call,    \* the last EKF member called and how it ended
    ekf_calls,   \* number of EKF member calls made so far
    prog,        \* which program drives the PhysicsEngine
    params_,     \* PhysicsEngine::params_
    pe_dt_,      \* PhysicsEngine::dt_
    args,        \* arguments of the direct engine calls
    call,        \* the last engine call and what it returned
    current_state,  \* the caller's VehicleState record
    given_state,    \* the record handed to the last simulateStep
    steps,          \* number of simulateStep calls made so far
    route_points,   \* physics_main: the parsed route
    filtered_target_ms,  \* physics_main: ramp-limited target speed
    wp,             \* physics_main: loop index i
    pc,             \* main.cpp: position in main ("off" when main is not run)
    route,          \* main.cpp: the loaded route
    idx,            \* main.cpp: loop index i
    init_dt,        \* main.cpp: init_dt
    loop_dt,        \* main.cpp: dt of the current iteration
    prev_timestamp, \* main.cpp: prev_timestamp
    prev_speed_ms,  \* main.cpp: prev_speed_ms
    prev_heading,   \* main.cpp: prev_heading
    xk,             \* main.cpp: the state read for the fused output
    calls_log       \* the EKF members main has called, in order

ekfVars == <<x_, P_, F_, dt_, ekf_call, ekf_calls>>

physVars == <<prog, params_, pe_dt_, args, call, current_state, given_state,
              steps, route_points, filtered_target_ms, wp>>

mainVars == <<pc, route, idx, init_dt, loop_dt, prev_timestamp, prev_speed_ms,
              prev_heading, xk, calls_log>>

vars == <<x_, P_, F_, dt_, ekf_call, ekf_calls, prog, params_, pe_dt_, args,
          call, current_state, given_state, steps, route_points,
          filtered_target_ms, wp, pc, route, idx, init_dt, loop_dt,
          prev_timestamp, prev_speed_ms, prev_heading, xk, calls_log>>

\* ------------------------------------------------------------------------
\* Bounds and input sets
\* ------------------------------------------------------------------------
MaxCalls == 3

MaxSteps == 2

MaxWaypoints == 3

\* time deltas handed to the EKF constructor and to setDeltaT
DeltaTs == {-1000, 50, 1000, 2000}

\* vectors handed to EKF::init (sizes 4, 5 and 6; yaw at and beyond +-pi)
StateInputs ==
    { <<1000, 2000, 3000, 4000>>,
      <<1000, 2000, 3000, 4000, 500, 600>>,
      <<0, 0, 0, 0, 0>>,
      <<1000, -2000, 3000, 500, -M_PI>>,
      <<-4000, 2500, 0, -1000, M_PI>>,
      <<250, 750, 1000, 1000, 7000>> }

\* vectors handed to EKF::update (sizes 1, 2 and 3)
Measurements ==
    { <<1000>>, <<1000, 2000>>, <<-3000, 500>>, <<1000, 2000, 3000>> }

\* (ax_body, yaw_rate) pairs handed to EKF::predict
Controls ==
    { <<0, 0>>, <<1000, 500>>, <<-2000, -M_PI>>, <<500, 4000>>, <<0, M_PI>> }

\* speeds (m/s) handed to the engine
Speeds == {-5000, 0, 50, 100, 101, 2950, 10000, 20000, 20100, 30000, 60000, 70000, 150000}

\* road grades (rad)
Grades == {-1571, -100, 0, 100, 1571, 10000}

Gears == {-1, 0, 1, 4, 6, 7, 9}

\* target speeds (m/s) handed to simulateStep
StepTargets == {0, 2000, 10000, 40000}

\* step intervals handed to the PhysicsEngine constructor
StepIntervals == {-1000, 0, 100, 1000, 10000}

\* route points of physics_main: speed_kmh, slope_deg, elevation_m
RoutePoints ==
    { [speed_kmh |-> s, slope_deg |-> g, elevation_m |-> 5000] :
        s \in {-36000, 0, 1800, 108000}, g \in {0, 10000} }

RECURSIVE SeqsUpTo(_, _)
SeqsUpTo(S, n) ==
    IF n = 0 THEN { <<>> }
    ELSE LET shorter == SeqsUpTo(S, n - 1)
         IN  shorter \cup { Append(q, e) : q \in { r \in shorter : Len(r) = n - 1 }, e \in S }

NoCall == [op |-> "none", ret |-> 0, mode |-> "none", pre_clamp |-> 0]

NoArgs == [speed |-> 0, target |-> 0, grade |-> 0, gear |-> 1]

\* VehicleState as physics_main.cpp sets it up before the loop
StartState ==
    [ speed_ms |-> 0, acceleration_ms2 |-> 0, position_m |-> 0, grade_rad |-> 0,
      elevation_m |-> 0, engine_rpm |-> VehicleParams.idle_rpm, current_gear |-> 1,
      throttle_percent |-> 0, brake_percent |-> 0 ]

\* ------------------------------------------------------------------------
\* EKF: constructor and member functions
\* ------------------------------------------------------------------------
\* EKF::EKF(double dt)
EKFConstructed(dt) ==
    /\ dt_ = dt
    /\ F_ = Transition(dt)
    /\ x_ = Zero(1, state_dim_)[1]
    /\ P_ = InitialCovariance
    /\ ekf_call = [op |-> "EKF", status |-> "ok", arg |-> <<dt>>]
    /\ ekf_calls = 0

\* the locals of main.cpp while main is not the program run
MainIdle ==
    /\ pc = "off"
    /\ route = <<>>
    /\ idx = 0
    /\ init_dt = 100
    /\ loop_dt = 100
    /\ prev_timestamp = 0
    /\ prev_speed_ms = 0
    /\ prev_heading = 0
    /\ xk = <<>>
    /\ calls_log = <<>>

\* the PhysicsEngine side while the EKF program runs
PhysIdle ==
    /\ prog = "ekf"
    /\ params_ = VehicleParams
    /\ pe_dt_ = 100
    /\ args = NoArgs
    /\ call = NoCall
    /\ current_state = StartState
    /\ given_state = StartState
    /\ steps = 0
    /\ route_points = <<>>
    /\ filtered_target_ms = 0
    /\ wp = 0

InitEKF == (\E dt \in DeltaTs : EKFConstructed(dt)) /\ PhysIdle /\ MainIdle

\* void EKF::init(const VectorXd& x0)
init(x0) ==
    /\ ekf_calls < MaxCalls
    /\ ekf_calls' = ekf_calls + 1
    /\ IF WrongSize(x0, state_dim_)
       THEN /\ ekf_call' = [op |-> "init", status |-> "dimension_error", arg |-> x0]
            /\ UNCHANGED <<x_, P_>>
       ELSE /\ ekf_call' = [op |-> "init", status |-> "ok", arg |-> x0]
            /\ x_' = x0
            /\ P_' = InitialCovariance
    /\ UNCHANGED <<F_, dt_>>
    /\ UNCHANGED physVars
    /\ UNCHANGED mainVars

\* void EKF::setDeltaT(double dt)
setDeltaT(dt) ==
    /\ ekf_calls < MaxCalls
    /\ ekf_calls' = ekf_calls + 1
    /\ ekf_call' = [op |-> "setDeltaT", status |-> "ok", arg |-> <<dt>>]
    /\ dt_' = dt
    /\ F_' = Transition(dt)
    /\ UNCHANGED <<x_, P_>>
    /\ UNCHANGED physVars
    /\ UNCHANGED mainVars

\* void EKF::predict(double ax_body, double yaw_rate)
predict(ax_body, yaw_rate) ==
    /\ ekf_calls < MaxCalls
    /\ ekf_calls' = ekf_calls + 1
    /\ ekf_call' = [op |-> "predict", status |-> "ok", arg |-> <<ax_body, yaw_rate>>]
    /\ x_' = PredictState(x_, dt_, ax_body, yaw_rate)
    /\ F_' = Transition(dt_)
    /\ P_' = PredictCovariance(P_, Transition(dt_))
    /\ UNCHANGED dt_
    /\ UNCHANGED physVars
    /\ UNCHANGED mainVars

\* void EKF::update(const VectorXd& z)
update(z) ==
    /\ ekf_calls < MaxCalls
    /\ ekf_calls' = ekf_calls + 1
    /\ IF WrongSize(z, meas_dim_)
       THEN /\ ekf_call' = [op |-> "update", status |-> "dimension_error", arg |-> z]
            /\ UNCHANGED <<x_, P_>>
       ELSE IF Det2(InnovationCovariance(P_)) = 0
       THEN \* S.inverse() of a singular S: x_ and P_ stop being finite numbers
            /\ ekf_call' = [op |-> "update", status |-> "singular", arg |-> z]
            /\ UNCHANGED <<x_, P_>>
       ELSE /\ ekf_call' = [op |-> "update", status |-> "ok", arg |-> z]
            /\ x_' = UpdateState(x_, P_, z)
            /\ P_' = UpdateCovariance(P_)
    /\ UNCHANGED <<F_, dt_>>
    /\ UNCHANGED physVars
    /\ UNCHANGED mainVars

\* VectorXd EKF::state() const
state == x_

NextEKF ==
    \/ \E x0 \in StateInputs : init(x0)
    \/ \E dt \in DeltaTs : setDeltaT(dt)
    \/ \E u \in Controls : predict(u[1], u[2])
    \/ \E z \in Measurements : update(z)

SpecEKF == InitEKF /\ [][NextEKF]_vars

\* The EKF used as documented: positive time deltas, 5-component initial
\* states and 2-component measurements, in any order.
PositiveDeltaTs == { dt \in DeltaTs : dt > 0 }

InitEKFPositive ==
    (\E dt \in PositiveDeltaTs : EKFConstructed(dt)) /\ PhysIdle /\ MainIdle

NextEKFPositive ==
    \/ \E x0 \in { v \in StateInputs : ~WrongSize(v, state_dim_) } : init(x0)
    \/ \E dt \in PositiveDeltaTs : setDeltaT(dt)
    \/ \E u \in Controls : predict(u[1], u[2])
    \/ \E z \in { v \in Measurements : ~WrongSize(v, meas_dim_) } : update(z)

SpecEKFPositive == InitEKFPositive /\ [][NextEKFPositive]_vars

\* ------------------------------------------------------------------------
\* PhysicsEngine driven by direct calls, by a simulateStep loop, and by the
\* per-waypoint loop of physics_main.cpp
\* ------------------------------------------------------------------------
\* the EKF side while an engine program runs
EKFIdle == EKFConstructed(1000)

\* PhysicsEngine(dt, params), then one call with arguments of the caller's choice
InitCalls ==
    /\ prog = "calls"
    /\ params_ \in {VehicleParams, MainParams}
    /\ pe_dt_ = 100
    /\ args \in [speed : Speeds, target : Speeds, grade : Grades, gear : {1}]
               \cup [speed : Speeds, target : {0}, grade : {0}, gear : Gears]
    /\ call = NoCall
    /\ current_state = StartState
    /\ given_state = StartState
    /\ steps = 0
    /\ route_points = <<>>
    /\ filtered_target_ms = 0
    /\ wp = 0

\* PhysicsEngine(dt, params) and a caller that feeds simulateStep its own result
InitSteps ==
    /\ prog = "steps"
    /\ params_ = VehicleParams
    /\ pe_dt_ \in StepIntervals
    /\ args = NoArgs
    /\ call = NoCall
    /\ \E v \in {-5000, 0, 2000, 30000}, g \in {-100, 0, 100, 1571} :
          current_state = [StartState EXCEPT !.speed_ms = v, !.grade_rad = g]
    /\ given_state = current_state
    /\ steps = 0
    /\ route_points = <<>>
    /\ filtered_target_ms = 0
    /\ wp = 0

\* physics_main.cpp up to the loop
InitMain ==
    /\ prog = "physics_main"
    /\ params_ = MainParams
    /\ pe_dt_ = 100
    /\ args = NoArgs
    /\ call = NoCall
    /\ current_state = [StartState EXCEPT !.engine_rpm = MainParams.idle_rpm]
    /\ given_state = current_state
    /\ steps = 0
    /\ route_points \in SeqsUpTo(RoutePoints, MaxWaypoints)
    /\ filtered_target_ms = IF route_points = <<>> THEN 0
                            ELSE Div(route_points[1].speed_kmh, 3600)
    /\ wp = 0

InitPhys == EKFIdle /\ MainIdle /\ (InitCalls \/ InitSteps \/ InitMain)

CallCalculateAcceleration ==
    /\ prog = "calls"
    /\ \E t \in {AccelerationTrace(params_, args.speed, args.target, args.grade)} :
          call' = [op |-> "calculateAcceleration", ret |-> t.acceleration,
                   mode |-> t.mode, pre_clamp |-> t.pre_clamp]
    /\ UNCHANGED <<prog, params_, pe_dt_, args, current_state, given_state, steps,
                   route_points, filtered_target_ms, wp>>
    /\ UNCHANGED ekfVars
    /\ UNCHANGED mainVars

CallSelectOptimalGear ==
    /\ prog = "calls"
    /\ call' = [op |-> "selectOptimalGear",
                ret |-> selectOptimalGear(params_, args.speed, args.target),
                mode |-> "none", pre_clamp |-> 0]
    /\ UNCHANGED <<prog, params_, pe_dt_, args, current_state, given_state, steps,
                   route_points, filtered_target_ms, wp>>
    /\ UNCHANGED ekfVars
    /\ UNCHANGED mainVars

\* an engine that kept the gear of the last selectOptimalGear call
CallCalculateEngineRPMKeepsGear ==
    /\ prog = "calls"
    /\ call' = [op |-> "calculateEngineRPM",
                ret |-> calculateEngineRPM(params_, args.speed,
                            IF call.op = "selectOptimalGear" THEN call.ret
                            ELSE args.gear),
                mode |-> "none", pre_clamp |-> 0]
    /\ UNCHANGED <<prog, params_, pe_dt_, args, current_state, given_state, steps,
                   route_points, filtered_target_ms, wp>>
    /\ UNCHANGED ekfVars
    /\ UNCHANGED mainVars

CallCalculateEngineRPM ==
    /\ prog = "calls"
    /\ call' = [op |-> "calculateEngineRPM",
                ret |-> calculateEngineRPM(params_, args.speed, args.gear),
                mode |-> "none", pre_clamp |-> 0]
    /\ UNCHANGED <<prog, params_, pe_dt_, args, current_state, given_state, steps,
                   route_points, filtered_target_ms, wp>>
    /\ UNCHANGED ekfVars
    /\ UNCHANGED mainVars

\* current_state = engine.simulateStep(current_state, target, distance)
CallSimulateStep(target_speed_ms) ==
    /\ prog = "steps"
    /\ steps < MaxSteps
    /\ steps' = steps + 1
    /\ given_state' = current_state
    /\ \E next_state \in {simulateStep(params_, pe_dt_, current_state,
                                       target_speed_ms, Num(100))} :
          /\ current_state' = next_state
          /\ call' = [op |-> "simulateStep", ret |-> next_state.acceleration_ms2,
                      mode |-> "none", pre_clamp |-> 0]
    /\ UNCHANGED <<prog, params_, pe_dt_, args, route_points, filtered_target_ms, wp>>
    /\ UNCHANGED ekfVars
    /\ UNCHANGED mainVars

\* the ramp limiter of the target speed: delta limited to +-max_target_delta
RampLimited(filtered, target_speed_ms_raw, max_target_delta) ==
    filtered + Max(-max_target_delta,
                   Min(max_target_delta, target_speed_ms_raw - filtered))

\* one iteration of the for loop of physics_main.cpp (dt = 0.1)
MainLoopStep ==
    /\ prog = "physics_main"
    /\ wp < Len(route_points)
    /\ \E point \in {route_points[wp + 1]} :
       \E filtered \in {RampLimited(filtered_target_ms, Div(point.speed_kmh, 3600),
                                    Mul(1500, 100))} :
       \E grade \in {Div(Mul(point.slope_deg, M_PI), Num(180))} :
       \E t \in {AccelerationTrace(params_, current_state.speed_ms,
                                   Max(0, filtered), grade)} :
       \E v \in {SpeedFloor(current_state.speed_ms + Mul(t.acceleration, 100))} :
       \E gear \in {selectOptimalGear(params_, v, Max(0, filtered))} :
           /\ filtered_target_ms' = filtered
           /\ current_state' =
                 [ current_state EXCEPT
                     !.grade_rad = grade,
                     !.elevation_m = point.elevation_m,
                     !.acceleration_ms2 = t.acceleration,
                     !.speed_ms = v,
                     !.position_m = current_state.position_m + Mul(v, 100),
                     !.current_gear = gear,
                     !.engine_rpm = calculateEngineRPM(params_, v, gear) ]
           /\ call' = [op |-> "calculateAcceleration", ret |-> t.acceleration,
                       mode |-> t.mode, pre_clamp |-> t.pre_clamp]
    /\ wp' = wp + 1
    /\ UNCHANGED <<prog, params_, pe_dt_, args, given_state, steps, route_points>>
    /\ UNCHANGED ekfVars
    /\ UNCHANGED mainVars

NextPhys ==
    \/ CallCalculateAcceleration
    \/ CallSelectOptimalGear
    \/ CallCalculateEngineRPM
    \/ \E t \in StepTargets : CallSimulateStep(t)
    \/ MainLoopStep

SpecPhys == InitPhys /\ [][NextPhys]_vars

\* ------------------------------------------------------------------------
\* The trajectory run of main.cpp: one EKF fed with the loaded route
\* ------------------------------------------------------------------------
MIN_DT == 50

MAX_DT == 2000

MAX_YAWRATE == 600

MAX_LONG_ACC == 2000

MAX_LONG_DEC == -3000

\* std::clamp(v, lo, hi)
clampd(v, lo, hi) == IF v < lo THEN lo ELSE IF hi < v THEN hi ELSE v

\* normalize angle to [-pi, pi]
norm_angle(a) == WrapLoop(a)

\* route points after load_route_from_json: the timestamp, the position in
\* metres, and the distance and heading of the segment that ends at the point
\* (what haversine_m and heading_rad return for it).  The timestamps include
\* equal, decreasing, closely and widely spaced ones.
GpsPoints ==
    { [timestamp |-> 0,      x |-> 0,     y |-> 0,    dist_m |-> 0,     heading |-> 0],
      [timestamp |-> 1000,   x |-> 5000,  y |-> 0,    dist_m |-> 5000,  heading |-> 1571],
      [timestamp |-> 1000,   x |-> 5000,  y |-> 4000, dist_m |-> 4000,  heading |-> 0],
      [timestamp |-> 1020,   x |-> 5500,  y |-> 4000, dist_m |-> 500,   heading |-> -3000],
      [timestamp |-> -500,   x |-> 2000,  y |-> 1000, dist_m |-> 3000,  heading |-> 3000],
      [timestamp |-> 100000, x |-> 20000, y |-> -9000, dist_m |-> 20000, heading |-> 2000] }

\* load_route_from_json returns at least 2 points
Routes == { r \in SeqsUpTo(GpsPoints, MaxWaypoints) : Len(r) >= 2 }

\* init_dt taken from the first two timestamps without the clamp
InitDtUnclamped(r) ==
    Val({ IF dt0 > 0 THEN dt0 ELSE 100 :
          dt0 \in { r[2].timestamp - r[1].timestamp } })

\* init_dt as main computes it from the first two timestamps
InitDt(r) ==
    Val({ IF dt0 > 0 THEN clampd(dt0, MIN_DT, MAX_DT) ELSE 100 :
          dt0 \in { r[2].timestamp - r[1].timestamp } })

\* raw_speed_ms[i] of the precompute loop (i counted from 1 here, 0 for the first)
raw_speed_ms(r, i) ==
    IF i = 1 THEN 0
    ELSE Div(r[i].dist_m, clampd(r[i].timestamp - r[i - 1].timestamp, MIN_DT, MAX_DT))

\* seg_heading[i] of the precompute loop
seg_heading(r, i) == IF i = 1 THEN 0 ELSE r[i].heading

\* z << meas_x[i], meas_y[i]: the position relative to the first point
Meas(r, i) == <<r[i].x - r[1].x, r[i].y - r[1].y>>

\* one entry of the call log: the member, the waypoint index it was called
\* for (-1 before the loop) and EKF::dt_ when the call returned
Logged(op, i, dt) == [op |-> op, wpt |-> i, dt |-> dt]

\* main up to and including `EKF filter(init_dt);`
InitTraj ==
    /\ PhysIdle
    /\ route \in Routes
    /\ init_dt = InitDt(route)
    /\ EKFConstructed(init_dt)
    /\ pc = "init"
    /\ idx = 0
    /\ loop_dt = init_dt
    /\ prev_timestamp = 0
    /\ prev_speed_ms = 0
    /\ prev_heading = 0
    /\ xk = <<>>
    /\ calls_log = <<Logged("EKF", -1, init_dt)>>

\* filter.init(x0) and the set-up of the running values before the loop
MainFilterInit ==
    /\ pc = "init"
    /\ pc' = "top"
    /\ \E x0 \in { <<Meas(route, 1)[1], Meas(route, 1)[2], 0, 0, 0>> } :
          /\ ekf_call' = [op |-> "init", status |-> "ok", arg |-> x0]
          /\ x_' = x0
          /\ P_' = InitialCovariance
    /\ ekf_calls' = ekf_calls + 1
    /\ calls_log' = Append(calls_log, Logged("init", -1, dt_))
    /\ prev_speed_ms' = raw_speed_ms(route, 2)
    /\ prev_heading' = seg_heading(route, 2)
    /\ prev_timestamp' = route[1].timestamp
    /\ UNCHANGED <<F_, dt_, route, idx, init_dt, loop_dt, xk>>
    /\ UNCHANGED physVars

\* the top of the loop body with filter.setDeltaT(dt) called for every i
MainLoopTopAlwaysSets ==
    /\ pc = "top"
    /\ idx < Len(route)
    /\ pc' = "update"
    /\ \E ts \in { route[idx + 1].timestamp } :
       \E dt \in { IF idx = 0 THEN init_dt
                   ELSE clampd(ts - prev_timestamp, MIN_DT, MAX_DT) } :
          /\ prev_timestamp' = ts
          /\ loop_dt' = dt
          /\ IF idx >= 0
             THEN /\ dt_' = dt
                  /\ F_' = Transition(dt)
                  /\ ekf_call' = [op |-> "setDeltaT", status |-> "ok", arg |-> <<dt>>]
                  /\ ekf_calls' = ekf_calls + 1
                  /\ calls_log' = Append(calls_log, Logged("setDeltaT", idx, dt))
             ELSE UNCHANGED <<dt_, F_, ekf_call, ekf_calls, calls_log>>
    /\ UNCHANGED <<x_, P_, route, idx, init_dt, prev_speed_ms, prev_heading, xk>>
    /\ UNCHANGED physVars

\* top of the loop body: dt of this waypoint, and filter.setDeltaT(dt) if i > 0
MainLoopTop ==
    /\ pc = "top"
    /\ idx < Len(route)
    /\ pc' = "update"
    /\ \E ts \in { route[idx + 1].timestamp } :
       \E dt \in { IF idx = 0 THEN init_dt
                   ELSE clampd(ts - prev_timestamp, MIN_DT, MAX_DT) } :
          /\ prev_timestamp' = ts
          /\ loop_dt' = dt
          /\ IF idx > 0
             THEN /\ dt_' = dt
                  /\ F_' = Transition(dt)
                  /\ ekf_call' = [op |-> "setDeltaT", status |-> "ok", arg |-> <<dt>>]
                  /\ ekf_calls' = ekf_calls + 1
                  /\ calls_log' = Append(calls_log, Logged("setDeltaT", idx, dt))
             ELSE UNCHANGED <<dt_, F_, ekf_call, ekf_calls, calls_log>>
    /\ UNCHANGED <<x_, P_, route, idx, init_dt, prev_speed_ms, prev_heading, xk>>
    /\ UNCHANGED physVars

\* filter.update(z) with z = (meas_x[i], meas_y[i])
MainUpdate ==
    /\ pc = "update"
    /\ pc' = "state"
    /\ \E z \in { Meas(route, idx + 1) } :
          IF Det2(InnovationCovariance(P_)) = 0
          THEN /\ ekf_call' = [op |-> "update", status |-> "singular", arg |-> z]
               /\ UNCHANGED <<x_, P_>>
          ELSE /\ ekf_call' = [op |-> "update", status |-> "ok", arg |-> z]
               /\ x_' = UpdateState(x_, P_, z)
               /\ P_' = UpdateCovariance(P_)
    /\ ekf_calls' = ekf_calls + 1
    /\ calls_log' = Append(calls_log, Logged("update", idx, dt_))
    /\ UNCHANGED <<F_, dt_, route, idx, init_dt, loop_dt, prev_timestamp,
                   prev_speed_ms, prev_heading, xk>>
    /\ UNCHANGED physVars

\* Eigen::VectorXd xk = filter.state(); the fused output is built from xk
MainReadState ==
    /\ pc = "state"
    /\ pc' = "predict"
    /\ xk' = state
    /\ calls_log' = Append(calls_log, Logged("state", idx, dt_))
    /\ UNCHANGED <<route, idx, init_dt, loop_dt, prev_timestamp, prev_speed_ms,
                   prev_heading>>
    /\ UNCHANGED ekfVars
    /\ UNCHANGED physVars

\* the kinematics of the waypoint, filter.predict(accel_long, yaw_rate), and
\* the end of the loop body
MainPredict ==
    /\ pc = "predict"
    /\ pc' = "top"
    /\ \E v_ms \in { IF idx = 0 THEN prev_speed_ms ELSE raw_speed_ms(route, idx + 1) } :
       \E hdg \in { IF idx = 0 THEN prev_heading ELSE seg_heading(route, idx + 1) } :
       \E yaw_rate \in { clampd(IF idx > 0
                                THEN Div(norm_angle(hdg - prev_heading), loop_dt)
                                ELSE 0,
                                -MAX_YAWRATE, MAX_YAWRATE) } :
       \E accel_long \in { IF idx > 0
                           THEN clampd(Div(v_ms - prev_speed_ms, loop_dt),
                                       MAX_LONG_DEC, MAX_LONG_ACC)
                           ELSE 0 } :
          /\ ekf_call' = [op |-> "predict", status |-> "ok",
                          arg |-> <<accel_long, yaw_rate>>]
          /\ x_' = PredictState(x_, dt_, accel_long, yaw_rate)
          /\ F_' = Transition(dt_)
          /\ P_' = PredictCovariance(P_, Transition(dt_))
          /\ prev_speed_ms' = v_ms
          /\ prev_heading' = hdg
    /\ ekf_calls' = ekf_calls + 1
    /\ calls_log' = Append(calls_log, Logged("predict", idx, dt_))
    /\ idx' = idx + 1
    /\ UNCHANGED <<dt_, route, init_dt, loop_dt, prev_timestamp, xk>>
    /\ UNCHANGED physVars

\* the loop has run over every waypoint: main goes on to write the output
MainFinish ==
    /\ pc = "top"
    /\ idx = Len(route)
    /\ pc' = "done"
    /\ UNCHANGED <<route, idx, init_dt, loop_dt, prev_timestamp, prev_speed_ms,
                   prev_heading, xk, calls_log>>
    /\ UNCHANGED ekfVars
    /\ UNCHANGED physVars

NextTraj ==
    \/ MainFilterInit
    \/ MainLoopTop
    \/ MainUpdate
    \/ MainReadState
    \/ MainPredict
    \/ MainFinish

SpecTraj == InitTraj /\ [][NextTraj]_vars

\* the default specification: the EKF under arbitrary calls
Init == InitEKF

Next == NextEKF

Spec == SpecEKF

\* ------------------------------------------------------------------------
\* Properties
\* ------------------------------------------------------------------------
\* what calculateAcceleration computes the speed error from
ClampedError == NonNegative(args.target) - NonNegative(args.speed)

DirectAccelCall == prog = "calls" /\ call.op = "calculateAcceleration"

\* C1: after a successful init(s), whatever calls came before, state() is
\* exactly s and the covariance is 10 on the diagonal and 0 elsewhere.
C1_InitSetsStateAndCovariance ==
    (ekf_call.op = "init" /\ Len(ekf_call.arg) = 5) =>
        /\ ekf_call.status = "ok"
        /\ state = ekf_call.arg
        /\ \A i \in 1..5 : \A j \in 1..5 :
              P_[i][j] = IF i = j THEN 10 * SCALE ELSE 0

\* init succeeded as the third call, with a non-zero vector
C1_Witness ==
    /\ ekf_call.op = "init"
    /\ ekf_call.status = "ok"
    /\ ekf_calls >= 3
    /\ x_ = <<1000, -2000, 3000, 500, -M_PI>>

\* C2: init with a vector of size other than 5 and update with a vector of
\* size other than 2 end in a dimension error and leave x_ and P_ as they were.
C2_DimensionErrorKeepsState ==
    [][ ( /\ ekf_calls' = ekf_calls + 1
          /\ \/ ekf_call'.op = "init" /\ Len(ekf_call'.arg) # 5
             \/ ekf_call'.op = "update" /\ Len(ekf_call'.arg) # 2 )
        => ( /\ ekf_call'.status = "dimension_error"
             /\ x_' = x_
             /\ P_' = P_ ) ]_vars

\* a wrong-size update was rejected after the estimate had left its start value
C2_Witness ==
    /\ ekf_call.op = "update"
    /\ ekf_call.status = "dimension_error"
    /\ Len(ekf_call.arg) = 1
    /\ P_[1][1] # 10 * SCALE
    /\ x_[1] # 0

\* C3: after any predict the stored yaw is in (-pi, pi].
C3_YawHalfOpenAfterPredict ==
    ekf_call.op = "predict" => (x_[5] > -M_PI /\ x_[5] <= M_PI)

\* C4: calculateAcceleration returns a value in [-6, +4] for every input.
C4_AccelerationBounded ==
    call.op \in {"calculateAcceleration", "simulateStep"} =>
        (call.ret >= -6 * SCALE /\ call.ret <= 4 * SCALE)

\* the final clamp cut a stronger deceleration, for a negative input speed too
C4_Witness ==
    /\ DirectAccelCall
    /\ call.pre_clamp < -6 * SCALE
    /\ call.ret = -6 * SCALE
    /\ args.grade = 1571

\* C5: a speed error (after clamping negative speeds) within [-0.1, +0.1]
\* gives exactly 0, whatever the grade and the current speed.
C5_CruiseReturnsZero ==
    (DirectAccelCall /\ ClampedError >= -100 /\ ClampedError <= 100) =>
        call.ret = 0

\* cruise at the edge of the dead band on a steep grade
C5_Witness ==
    /\ DirectAccelCall
    /\ args.speed = 20100
    /\ args.target = 20000
    /\ args.grade = 1571
    /\ call.ret = 0

\* C6: default parameters, standstill, level road, target above 0.1 m/s:
\* the accelerate branch is taken and the result is in (0, 4].
C6_StandstillAccelerates ==
    ( /\ DirectAccelCall
      /\ params_ = VehicleParams
      /\ args.speed = 0
      /\ args.grade = 0
      /\ args.target > 100 ) =>
        (call.mode = "accel" /\ call.ret > 0 /\ call.ret <= 4 * SCALE)

\* the smallest target above the dead band
C6_Witness ==
    /\ DirectAccelCall
    /\ params_ = VehicleParams
    /\ args.speed = 0
    /\ args.grade = 0
    /\ args.target = 101
    /\ call.ret > 0

\* C7 as stated: on a level road, target - current < -0.1 (of the arguments
\* as given) takes the brake branch and returns a negative value, at most
\* 8 m/s^2 of deceleration before the final clamp and at least -6 after it.
C7_BrakeOnRawError ==
    (DirectAccelCall /\ args.grade = 0 /\ args.target - args.speed < -100) =>
        /\ call.mode = "brake"
        /\ call.ret < 0
        /\ call.pre_clamp >= -8 * SCALE
        /\ call.ret >= -6 * SCALE

\* C7 amended: the same, for the speed error taken after negative speeds
\* are clamped to 0.
C7_BrakeOnClampedError ==
    (DirectAccelCall /\ args.grade = 0 /\ ClampedError < -100) =>
        /\ call.mode = "brake"
        /\ call.ret < 0
        /\ call.pre_clamp >= -8 * SCALE
        /\ call.ret >= -6 * SCALE

\* braking from a speed where drag alone exceeds the ABS limit
C7_Witness ==
    /\ DirectAccelCall
    /\ args.grade = 0
    /\ args.speed = 150000
    /\ args.target = 0
    /\ call.mode = "brake"
    /\ call.pre_clamp = -8 * SCALE
    /\ call.ret = -6 * SCALE

\* C8: the gear selectOptimalGear(speed, speed) returns keeps the engine at
\* or below 0.85 * max_rpm at that speed, for every speed >= 0.
C8_SelectedGearBelowRedline ==
    ( /\ prog = "calls"
      /\ call.op = "selectOptimalGear"
      /\ args.speed >= 0
      /\ args.target = args.speed ) =>
        calculateEngineRPM(params_, args.speed, call.ret) <= Mul(params_.max_rpm, 850)

\* C9: speed is never negative after simulateStep or after a waypoint of
\* the physics_main loop.
C9_SpeedNeverNegative ==
    (steps > 0 \/ wp > 0) => current_state.speed_ms >= 0

\* the floor acted: v + a * dt was negative, the negative input speed included
C9_Witness ==
    /\ prog = "steps"
    /\ steps > 0
    /\ given_state.speed_ms < 0
    /\ given_state.speed_ms + Mul(current_state.acceleration_ms2, pe_dt_) < 0
    /\ current_state.speed_ms = 0

\* C10 as stated: an out-of-range gear is clamped into [1, 6]: below 1 is
\* gear 1, above 6 is gear 6.
C10_GearClamped ==
    (prog = "calls" /\ call.op = "calculateEngineRPM") =>
        LET g == IF args.gear < 1 THEN 1 ELSE IF args.gear > 6 THEN 6 ELSE args.gear
        IN  call.ret = calculateEngineRPM(params_, args.speed, g)

\* C10 amended: every gear outside 1..6, below or above, is treated as gear 1,
\* and the index used is always within the 6-entry gear-ratio list.
C10_GearDefaultsToFirst ==
    (prog = "calls" /\ call.op = "calculateEngineRPM") =>
        LET g == IF args.gear \in 1..6 THEN args.gear ELSE 1
        IN  /\ call.ret = calculateEngineRPM(params_, args.speed, g)
            /\ GearDefault(args.gear) \in DOMAIN params_.gear_ratios

\* gear 7 at speed: the result is that of gear 1, not of gear 6
C10_Witness ==
    /\ prog = "calls"
    /\ call.op = "calculateEngineRPM"
    /\ args.gear = 7
    /\ args.speed = 20000
    /\ call.ret = calculateEngineRPM(params_, args.speed, 1)
    /\ call.ret # calculateEngineRPM(params_, args.speed, 6)

\* C11: selectOptimalGear returns the lowest gear g of 1..6 whose RPM at the
\* speed lies in [idle_rpm, 0.85 max_rpm] and whose RPM at the target is at
\* most 0.9 max_rpm, and 1 when no gear satisfies both; the result is always
\* in 1..6 and is a function of the two arguments (and the parameter record).
C11_LowestFittingGear ==
    (prog = "calls" /\ call.op = "selectOptimalGear") =>
        LET fitting == { g \in 1..6 :
                /\ calculateEngineRPM(params_, args.speed, g) >= params_.idle_rpm
                /\ calculateEngineRPM(params_, args.speed, g)
                      <= Mul(params_.max_rpm, 850)
                /\ calculateEngineRPM(params_, args.target, g)
                      <= Mul(params_.max_rpm, 900) }
        IN  /\ call.ret \in 1..6
            /\ fitting = {} => call.ret = 1
            /\ fitting # {} => /\ call.ret \in fitting
                               /\ \A g \in fitting : call.ret <= g

\* 20 m/s towards 30 m/s: gear 2 is in range at the speed but over 0.9 max_rpm
\* at the target, so gear 3 is the lowest fitting gear
C11_Witness ==
    /\ prog = "calls"
    /\ call.op = "selectOptimalGear"
    /\ args.speed = 20000
    /\ args.target = 30000
    /\ calculateEngineRPM(params_, args.speed, 2) <= Mul(params_.max_rpm, 850)
    /\ calculateEngineRPM(params_, args.target, 2) > Mul(params_.max_rpm, 900)
    /\ call.ret = 3

\* A[i][j] = A[j][i] for all i, j
Symmetric(A) == \A i \in 1..Len(A) : \A j \in 1..Len(A) : A[i][j] = A[j][i]

\* the 2x2 principal submatrix of A on rows and columns i and j
Block(A, i, j) == <<<<A[i][i], A[i][j]>>, <<A[j][i], A[j][j]>>>>

\* A couples only (x, vx) and (y, vy): every other off-diagonal entry is 0
BlockDiagonal(A) ==
    \A i \in 1..Len(A) : \A j \in 1..Len(A) :
        (i # j /\ {i, j} # {1, 3} /\ {i, j} # {2, 4}) => A[i][j] = 0

\* positive semi-definiteness of a matrix of that block form: the diagonal
\* and the determinants of the two 2x2 blocks are non-negative
BlockPSD(A) ==
    /\ BlockDiagonal(A)
    /\ \A i \in 1..Len(A) : A[i][i] >= 0
    /\ Det2(Block(A, 1, 3)) >= 0
    /\ Det2(Block(A, 2, 4)) >= 0

\* C12: in every state reached from init by setDeltaT (dt > 0), predict and
\* update calls the covariance P_ is symmetric and positive semi-definite.
C12_CovarianceSymmetricPSD == Symmetric(P_) /\ BlockPSD(P_)

\* C13: the engine keeps no state between calls: no engine call changes
\* params_ or the step interval, and whatever calls came before, each call
\* returns the value that its arguments and params_ alone determine.
C13_EngineStateless ==
    [][ /\ params_' = params_
        /\ pe_dt_' = pe_dt_
        /\ (prog = "calls" /\ call'.op = "calculateAcceleration") =>
              call'.ret = calculateAcceleration(params_, args.speed, args.target,
                                                args.grade, 0)
        /\ (prog = "calls" /\ call'.op = "selectOptimalGear") =>
              call'.ret = selectOptimalGear(params_, args.speed, args.target)
        /\ (prog = "calls" /\ call'.op = "calculateEngineRPM") =>
              call'.ret = calculateEngineRPM(params_, args.speed, args.gear)
        /\ (prog = "steps") =>
              \E t \in StepTargets :
                  current_state' = simulateStep(params_, pe_dt_, current_state,
                                                t, Num(100)) ]_vars

\* a second simulateStep call, made after an earlier one, with a result that
\* is not trivially zero
C13_Witness ==
    /\ prog = "steps"
    /\ steps = 2
    /\ pe_dt_ = 1000
    /\ current_state.acceleration_ms2 # 0
    /\ \E t \in StepTargets :
          current_state = simulateStep(params_, pe_dt_, given_state, t, Num(100))

\* the members main called for waypoint j (-1: before the loop), in order
OpsOf(j) ==
    LET For(e) == e.wpt = j
        sel == SelectSeq(calls_log, For)
    IN  [k \in 1..Len(sel) |-> sel[k].op]

\* the first n entries of sequence q
Prefix(q, n) == SubSeq(q, 1, n)

\* how many entries of the call log are calls of member op
CountOf(op) == Cardinality({ k \in 1..Len(calls_log) : calls_log[k].op = op })

\* C14: in the run of main.cpp the estimator is initialized exactly once,
\* before any other call; then for each waypoint i in order there is exactly
\* one update followed by exactly one predict, setDeltaT comes before the
\* update exactly when i > 0, and the state for the fused output is read
\* between the update and the predict.  At completion the numbers of update
\* and predict calls both equal the number of waypoints.
C14_CallOrder ==
    (pc # "off") =>
        /\ OpsOf(-1) = IF pc = "init" THEN <<"EKF">> ELSE <<"EKF", "init">>
        /\ \A k \in 1..(Len(calls_log) - 1) : calls_log[k].wpt <= calls_log[k + 1].wpt
        /\ \A k \in 1..Len(calls_log) : calls_log[k].wpt < Len(route)
        /\ \A j \in 0..(idx - 1) :
              OpsOf(j) = IF j = 0 THEN <<"update", "state", "predict">>
                         ELSE <<"setDeltaT", "update", "state", "predict">>
        /\ idx < Len(route) =>
              OpsOf(idx) =
                 Prefix(IF idx = 0 THEN <<"update", "state">>
                        ELSE <<"setDeltaT", "update", "state">>,
                        CASE pc = "predict" -> IF idx = 0 THEN 2 ELSE 3
                          [] pc = "state"   -> IF idx = 0 THEN 1 ELSE 2
                          [] pc = "update"  -> IF idx = 0 THEN 0 ELSE 1
                          [] OTHER          -> 0)
        /\ pc = "predict" => xk = x_
        /\ pc = "done" => /\ idx = Len(route)
                          /\ CountOf("update") = Len(route)
                          /\ CountOf("predict") = Len(route)
                          /\ CountOf("init") = 1

\* a completed run over three waypoints
C14_Witness ==
    /\ pc = "done"
    /\ Len(route) = 3
    /\ CountOf("update") = 3
    /\ CountOf("predict") = 3
    /\ CountOf("setDeltaT") = 2

\* C15: every time delta main.cpp gives the estimator, through the
\* constructor or through setDeltaT, lies in [0.05, 2.0] s, whatever the
\* timestamps of the route are, so every predict runs with such a dt.
C15_DeltaTWithinLimits ==
    (pc # "off") =>
        /\ MIN_DT <= dt_ /\ dt_ <= MAX_DT
        /\ \A k \in 1..Len(calls_log) :
              calls_log[k].op \in {"EKF", "setDeltaT", "predict"} =>
                  (MIN_DT <= calls_log[k].dt /\ calls_log[k].dt <= MAX_DT)

\* both clamps acted: a setDeltaT for a waypoint whose timestamp is not after
\* the previous one got 0.05, and a predict ran with the upper limit 2.0
C15_Witness ==
    /\ pc = "done"
    /\ \E k \in 1..Len(calls_log) :
          /\ calls_log[k].op = "setDeltaT"
          /\ calls_log[k].dt = MIN_DT
          /\ route[calls_log[k].wpt + 1].timestamp <= route[calls_log[k].wpt].timestamp
    /\ \E k \in 1..Len(calls_log) :
          /\ calls_log[k].op = "predict"
          /\ calls_log[k].dt = MAX_DT

\* C16: in every state reached from the constructor or init by setDeltaT
\* (dt > 0), predict and update calls, the innovation covariance
\* S = H P H^T + R that update computes is invertible (det S # 0), so no
\* update meets the singular-S condition.
C16_InnovationInvertible ==
    /\ Det2(InnovationCovariance(P_)) # 0
    /\ ekf_call.status # "singular"

\* the third call is an update that went through after a predict had coupled
\* position and velocity: S was inverted for a covariance other than 10 I
C16_Witness ==
    /\ ekf_calls = 3
    /\ ekf_call.op = "update"
    /\ ekf_call.status = "ok"
    /\ P_[1][1] < InitialCovariance[1][1]
    /\ P_[1][3] # 0
    /\ Det2(InnovationCovariance(P_)) > 0

\* C17: simulateStep never decreases the cumulative position: for an input
\* record with speed_ms >= 0 and a step interval dt > 0, whatever the target
\* speed and grade, the returned position_m is >= the input position_m.
C17_PositionNeverDecreases ==
    (prog = "steps" /\ steps > 0 /\ given_state.speed_ms >= 0 /\ pe_dt_ > 0) =>
        current_state.position_m >= given_state.position_m

\* C18: update leaves the yaw component of the state unchanged for every
\* 2-component measurement, because the covariance between yaw and the other
\* four components stays zero under any sequence of setDeltaT, predict and
\* update; yaw is changed only by predict and init.
C18_UpdateKeepsYaw ==
    [][ /\ ekf_call'.op = "update" => x_'[5] = x_[5]
        /\ x_'[5] # x_[5] => ekf_call'.op \in {"predict", "init"}
        /\ \A j \in 1..4 : /\ P_[5][j] = 0 /\ P_[j][5] = 0
                           /\ P_'[5][j] = 0 /\ P_'[j][5] = 0 ]_vars

\* the third call is an update that went through, on a state with a non-zero
\* yaw and a covariance that a predict had coupled: it moved x and kept yaw
C18_Witness ==
    /\ ekf_calls = 3
    /\ ekf_call.op = "update"
    /\ ekf_call.status = "ok"
    /\ x_[5] # 0
    /\ P_[1][3] # 0
    /\ x_[1] # ekf_call.arg[1]
    /\ P_[1][1] < InitialCovariance[1][1]

\* the fields of VehicleState that simulateStep does not compute
KeptFields ==
    {"grade_rad", "elevation_m", "engine_rpm", "current_gear",
     "throttle_percent", "brake_percent"}

\* C19: simulateStep does not modify the record it is given, and the record it
\* returns differs from the input only in acceleration_ms2, speed_ms and
\* position_m: the six other fields are returned unchanged.
C19_StepFrame ==
    [][ (prog = "steps" /\ steps' = steps + 1) =>
           /\ given_state' = current_state
           /\ DOMAIN current_state' = DOMAIN current_state
           /\ \A f \in KeptFields : current_state'[f] = current_state[f] ]_vars

\* a step on a graded road that changed all three computed fields and
\* returned the non-zero grade, engine speed and gear as given
C19_Witness ==
    /\ prog = "steps"
    /\ steps > 0
    /\ given_state.grade_rad = 100
    /\ current_state.acceleration_ms2 # given_state.acceleration_ms2
    /\ current_state.speed_ms # given_state.speed_ms
    /\ current_state.position_m # given_state.position_m
    /\ \A f \in KeptFields : current_state[f] = given_state[f]
    /\ current_state.engine_rpm # 0
    /\ current_state.current_gear # 0

====
